---- MODULE Spec2Model ----
(***************************************************************************)
(* Model of Scripts/download_nfip_updates.py: the plan loader, the         *)
(* staleness check, the checksum engine, the atomic writer and the         *)
(* sequential orchestrator (main / download_target).                       *)
(*                                                                         *)
(* Representation.  Text values (name, url, filename, algorithm) are TLA+  *)
(* strings.  Hex strings (checksum, digest) are sequences of one-character *)
(* strings so that str.lower() is computed character by character.  A      *)
(* Python value that may be None, and a JSON value that may be null, is a  *)
(* tagged record: [t |-> "none"] or [t |-> "str", v |-> ...].              *)
(* File contents are sequences of bytes.                                   *)
(***************************************************************************)
EXTENDS Integers, Sequences, FiniteSets, TLC

(* ------------------------------ bounds --------------------------------- *)

\* longest file content (in bytes) a file on disk or a response body has
MaxLen == 2

\* most entries in a plan document processed by a run
MaxPlan == 2

\* most entries in a plan document given to the plan loader alone
MaxDoc == 2

(* ------------------------------ values --------------------------------- *)

None == [t |-> "none"]

Some(x) == [t |-> "str", v |-> x]

Bytes == {1}

Contents == UNION {[1..n -> Bytes] : n \in 0..MaxLen}

\* the file names a plan of the model resolves to inside output_dir
FileNames == {"a", "b"}

Absent == [k |-> "absent"]

Dir == [k |-> "dir"]

File(data) == [k |-> "file", data |-> data]

FileStates == {Absent, Dir} \cup {File(c) : c \in Contents}

(* --------------------------- checksum engine --------------------------- *)

HexDigits == <<"0", "1", "2", "3", "4", "5", "6", "7",
               "8", "9", "a", "b", "c", "d", "e", "f">>

\* str.lower() on one character of a hex string
LowerChar(c) ==
    CASE c = "A" -> "a" [] c = "B" -> "b" [] c = "C" -> "c"
      [] c = "D" -> "d" [] c = "E" -> "e" [] c = "F" -> "f"
      [] OTHER -> c

\* str.lower()
Lower(s) == [k \in DOMAIN s |-> LowerChar(s[k])]

\* hashlib.new(algorithm): a fixed-length hash, an extendable-output
\* function (its hexdigest() needs a length), or ValueError
HashKind(algorithm) ==
    CASE algorithm \in {"sha256", "md5"} -> "fixed"
      [] algorithm \in {"shake_128"} -> "xof"
      [] OTHER -> "unsupported"

\* initial state of the hash object
HashInit(algorithm) == IF algorithm = "md5" THEN 5 ELSE 10

\* digest.update over the bytes of the file, in order; feeding the file in
\* chunks of _DEFAULT_CHUNK_SIZE gives the same state as feeding it whole
RECURSIVE HashUpdate(_, _)
HashUpdate(h, data) ==
    IF data = <<>> THEN h
    ELSE HashUpdate((3 * h + Head(data)) % 16, Tail(data))

\* digest.hexdigest(): lowercase hex
HexDigest(h) == <<HexDigits[h + 1], HexDigits[(15 - h) + 1]>>

\* the digest of bytes held in memory
DigestOf(algorithm, data) == HexDigest(HashUpdate(HashInit(algorithm), data))

\* compute_checksum(path, algorithm) where st is the state of path.
\* Result: a digest, None, or an exception that leaves the function.
compute_checksum(st, algorithm) ==
    IF HashKind(algorithm) = "unsupported" THEN [out |-> "none"]
    ELSE IF st.k = "absent" THEN [out |-> "none"]
    ELSE IF st.k = "dir" THEN [out |-> "raise", exc |-> "IsADirectoryError"]
    ELSE IF HashKind(algorithm) = "xof" THEN [out |-> "raise", exc |-> "TypeError"]
    ELSE [out |-> "digest", v |-> DigestOf(algorithm, st.data)]

(* ---------------------------- download target -------------------------- *)

\* Python truth value of an optional hex string (None and "" are false)
Truthy(x) == x.t = "str" /\ x.v # <<>>

\* needs_download with its first two tests in the other order
needs_download_checksum_first(target, st) ==
    IF ~Truthy(target.checksum)
    THEN [out |-> "bool", stale |-> FALSE, digested |-> FALSE]
    ELSE IF st.k = "absent" THEN [out |-> "bool", stale |-> TRUE, digested |-> FALSE]
    ELSE LET current_digest == compute_checksum(st, target.checksum_algorithm)
         IN  CASE current_digest.out = "raise" ->
                    [out |-> "raise", exc |-> current_digest.exc, digested |-> TRUE]
               [] current_digest.out = "none" ->
                    [out |-> "bool", stale |-> TRUE, digested |-> TRUE]
               [] OTHER ->
                    [out |-> "bool",
                     stale |-> current_digest.v # Lower(target.checksum.v),
                     digested |-> TRUE]

\* needs_download comparing the digest with the checksum as it is written
needs_download_case_sensitive(target, st) ==
    IF st.k = "absent" THEN [out |-> "bool", stale |-> TRUE, digested |-> FALSE]
    ELSE IF ~Truthy(target.checksum)
    THEN [out |-> "bool", stale |-> FALSE, digested |-> FALSE]
    ELSE LET current_digest == compute_checksum(st, target.checksum_algorithm)
         IN  CASE current_digest.out = "raise" ->
                    [out |-> "raise", exc |-> current_digest.exc, digested |-> TRUE]
               [] current_digest.out = "none" ->
                    [out |-> "bool", stale |-> TRUE, digested |-> TRUE]
               [] OTHER ->
                    [out |-> "bool",
                     stale |-> current_digest.v # target.checksum.v,
                     digested |-> TRUE]

\* DownloadTarget.needs_download, st the state of the destination path.
\* Result: a boolean or an exception; digested tells whether
\* compute_checksum was called.
needs_download(target, st) ==
    IF st.k = "absent" THEN [out |-> "bool", stale |-> TRUE, digested |-> FALSE]
    ELSE IF ~Truthy(target.checksum)
    THEN [out |-> "bool", stale |-> FALSE, digested |-> FALSE]
    ELSE LET current_digest == compute_checksum(st, target.checksum_algorithm)
         IN  CASE current_digest.out = "raise" ->
                    [out |-> "raise", exc |-> current_digest.exc, digested |-> TRUE]
               [] current_digest.out = "none" ->
                    [out |-> "bool", stale |-> TRUE, digested |-> TRUE]
               [] OTHER ->
                    [out |-> "bool",
                     stale |-> current_digest.v # Lower(target.checksum.v),
                     digested |-> TRUE]

(* ------------------------------ plan loader ---------------------------- *)

\* str(value) of a JSON text value or null
Str(x) == IF x.t = "none" THEN "None" ELSE x.v

\* entry.get(key, default)
Get(fields, key, default) == IF key \in DOMAIN fields THEN fields[key] ELSE default

\* the DownloadTarget with a misspelt default algorithm
MakeTargetMisspeltDefault(fields) ==
    [name |-> Str(fields["name"]),
     url |-> Str(fields["url"]),
     filename |-> Str(Get(fields, "filename", fields["name"])),
     checksum |-> LET c == Get(fields, "checksum", None)
                  IN  IF Truthy(c) THEN c ELSE None,
     checksum_algorithm |-> Str(Get(fields, "checksum_algorithm", Some("sha-256")))]

\* the DownloadTarget with the file name defaulting to the url
MakeTargetFilenameFromUrl(fields) ==
    [name |-> Str(fields["name"]),
     url |-> Str(fields["url"]),
     filename |-> Str(Get(fields, "filename", fields["url"])),
     checksum |-> LET c == Get(fields, "checksum", None)
                  IN  IF Truthy(c) THEN c ELSE None,
     checksum_algorithm |-> Str(Get(fields, "checksum_algorithm", Some("sha256")))]

\* the DownloadTarget built from one keyed record that has name and url
MakeTarget(fields) ==
    [name |-> Str(fields["name"]),
     url |-> Str(fields["url"]),
     filename |-> Str(Get(fields, "filename", fields["name"])),
     checksum |-> LET c == Get(fields, "checksum", None)
                  IN  IF Truthy(c) THEN c ELSE None,
     checksum_algorithm |-> Str(Get(fields, "checksum_algorithm", Some("sha256")))]

\* the loop of read_download_plan from entry k on; acc holds the targets so far
RECURSIVE ReadEntries(_, _, _)
ReadEntries(items, k, acc) ==
    IF k > Len(items) THEN [ok |-> TRUE, targets |-> acc]
    ELSE IF items[k].kind # "object" THEN [ok |-> FALSE, exc |-> "ValueError"]
    ELSE IF "name" \notin DOMAIN items[k].fields THEN [ok |-> FALSE, exc |-> "KeyError"]
    ELSE IF "url" \notin DOMAIN items[k].fields THEN [ok |-> FALSE, exc |-> "KeyError"]
    ELSE ReadEntries(items, k + 1, Append(acc, MakeTarget(items[k].fields)))

\* read_download_plan on the parsed document
read_download_plan(payload) ==
    IF payload.kind = "invalid" THEN [ok |-> FALSE, exc |-> "JSONDecodeError"]
    ELSE IF payload.kind # "list" THEN [ok |-> FALSE, exc |-> "ValueError"]
    ELSE ReadEntries(payload.items, 1, <<>>)

(* ------------------------------ documents ------------------------------ *)

\* a JSON element that is not a keyed record
Scalar == [kind |-> "scalar"]

\* a JSON keyed record
Object(fields) == [kind |-> "object", fields |-> fields]

\* all sequences over S of length at most n
SeqUpTo(S, n) == UNION {[1..k -> S] : k \in 0..n}

\* the plan entries the runs of the model draw from
RunEntries ==
    { Scalar,
      Object([name |-> Some("a")]),
      Object([url |-> Some("u")]),
      Object([name |-> Some("a"), url |-> Some("u")]),
      Object([name |-> Some("b"), url |-> Some("u"), checksum |-> Some(<<>>)]),
      Object([name |-> Some("a"), url |-> Some("u"), checksum |-> Some(<<"0", "F">>),
              checksum_algorithm |-> Some("md5")]),
      Object([name |-> Some("b"), url |-> Some("u"), checksum |-> Some(<<"F", "0">>)]),
      Object([name |-> Some("b"), url |-> Some("u"), filename |-> Some("a"),
              checksum |-> Some(<<"e", "1">>)]),
      Object([name |-> Some("a"), url |-> Some("u"), checksum |-> Some(<<"f", "0">>),
              checksum_algorithm |-> Some("crc9")]),
      Object([name |-> Some("b"), url |-> Some("u"), checksum |-> Some(<<"f", "0">>),
              checksum_algorithm |-> Some("shake_128")]) }

\* one optional key of a keyed record: omitted, or present with a value of vals
Field(key, vals) == {<<>>} \cup {[k \in {key} |-> v] : v \in vals}

\* the plan entries the plan loader alone is given
PlanEntries ==
    {Scalar} \cup
    { Object(n @@ u @@ f @@ c @@ a) :
        n \in Field("name", {Some("a")}),
        u \in Field("url", {Some("u")}),
        f \in Field("filename", {Some("b"), None}),
        c \in Field("checksum", {None, Some(<<>>), Some(<<"A", "5">>)}),
        a \in Field("checksum_algorithm", {Some("crc9")}) }

\* the plan documents the plan loader alone is given
PlanDocs ==
    {[kind |-> "invalid"], [kind |-> "object"]}
      \cup {[kind |-> "list", items |-> s] : s \in SeqUpTo(PlanEntries, MaxDoc)}

\* the plan documents of a run: unparsable, a single object, or a list
RunDocs ==
    {[kind |-> "invalid"], [kind |-> "object"]}
      \cup {[kind |-> "list", items |-> s] : s \in SeqUpTo(RunEntries, MaxPlan)}

(* -------------------------------- state -------------------------------- *)

VARIABLES
    payload,    \* the parsed plan document at args.config
    dirExists,  \* whether output_dir exists
    fs,         \* output_dir: file name -> state of that path
    tmp,        \* the temporary sibling file of persist_bytes (Absent or File)
    pc,         \* position of the process
    targets,    \* main: the loaded plan
    i,          \* main: index of the target being processed
    content,    \* download_target: the fetched bytes
    results,    \* main: the DownloadResult list
    exitCode,   \* the value main returned (-1 while it has not returned)
    status,     \* per target: its state in the orchestrator's state machine
    trace,      \* history: <<operation, target index>> of each effect so far
    pre,        \* history: the directory's files when persist_bytes was called
    run,        \* history: how many times main has been started
    start,      \* history: the directory's files when this run of main started
    killedAt    \* history: the position at which the process was interrupted

vars == <<payload, dirExists, fs, tmp, pc, targets, i, content, results,
          exitCode, status, trace, pre, killedAt, run, start>>

disk == <<dirExists, fs, tmp>>

\* the target download_target is working on
target == targets[i]

\* target.destination_path(output_dir), as a file name inside output_dir
destination == target.filename

\* the state of a path inside output_dir
PathState(f) == IF dirExists THEN fs[f] ELSE Absent

Init ==
    /\ payload \in RunDocs
    /\ dirExists \in BOOLEAN
    /\ fs \in [FileNames -> FileStates]
    /\ ~dirExists => \A f \in FileNames : fs[f] = Absent
    /\ tmp = Absent
    /\ pc = "load"
    /\ targets = <<>>
    /\ i = 0
    /\ content = <<>>
    /\ results = <<>>
    /\ exitCode = -1
    /\ status = <<>>
    /\ trace = <<>>
    /\ pre = [f \in FileNames |-> Absent]
    /\ killedAt = "none"
    /\ run = 1
    /\ start = [f \in FileNames |-> PathState(f)]

(* --------------------------------- main -------------------------------- *)

\* main returns code
Exit(code) ==
    /\ pc' = "exit"
    /\ exitCode' = code

\* main reporting a bad plan with the exit code of a failed download
ReadPlanExitOne ==
    /\ pc = "load"
    /\ LET r == read_download_plan(payload)
       IN  IF ~r.ok
           THEN /\ Exit(1)
                /\ UNCHANGED <<targets, i, status>>
           ELSE /\ targets' = r.targets
                /\ status' = [k \in 1..Len(r.targets) |-> "PENDING"]
                /\ i' = 1
                /\ IF r.targets = <<>>
                   THEN Exit(0)
                   ELSE pc' = "check" /\ UNCHANGED exitCode
    /\ UNCHANGED <<run, start, payload, disk, content, results, trace, pre, killedAt>>

\* main, lines 205-213 (and 230-232 for an empty plan): load the plan
ReadPlan ==
    /\ pc = "load"
    /\ LET r == read_download_plan(payload)
       IN  IF ~r.ok
           THEN /\ Exit(2)
                /\ UNCHANGED <<targets, i, status>>
           ELSE /\ targets' = r.targets
                /\ status' = [k \in 1..Len(r.targets) |-> "PENDING"]
                /\ i' = 1
                /\ IF r.targets = <<>>
                   THEN Exit(0)
                   ELSE pc' = "check" /\ UNCHANGED exitCode
    /\ UNCHANGED <<run, start, payload, disk, content, results, trace, pre, killedAt>>

\* main logging the failure and going on with the next target
FailAndContinue(st) ==
    /\ status' = [status EXCEPT ![i] = st]
    /\ i' = i + 1
    /\ IF i + 1 > Len(targets)
       THEN Exit(1)
       ELSE pc' = "check" /\ UNCHANGED exitCode
    /\ UNCHANGED <<targets, results>>

\* main, lines 218-220: download_target raised; the target ends in state st
Fail(st) ==
    /\ status' = [status EXCEPT ![i] = st]
    /\ Exit(1)
    /\ UNCHANGED <<targets, i, results>>

\* main, lines 221-232: download_target returned; append and go on or return 0
Return(st, duration, from_cache) ==
    /\ status' = [status EXCEPT ![i] = st]
    /\ results' = Append(results, [target |-> target, path |-> destination,
                                   duration_seconds |-> duration,
                                   from_cache |-> from_cache])
    /\ i' = i + 1
    /\ IF i + 1 > Len(targets)
       THEN Exit(0)
       ELSE pc' = "check" /\ UNCHANGED exitCode
    /\ UNCHANGED targets

(* ---------------------------- download_target --------------------------- *)

\* the staleness check reporting the elapsed time for a cached target too
CheckStaleTimed ==
    /\ pc = "check"
    /\ LET nd == needs_download(target, PathState(destination))
       IN  /\ trace' = trace \o (IF nd.digested THEN <<<<"digest", i>>>> ELSE <<>>)
                             \o <<<<"check", i>>>>
           /\ CASE nd.out = "raise" -> Fail("ERROR")
                [] nd.out = "bool" /\ ~nd.stale -> Return("CACHED", 1, TRUE)
                [] OTHER -> /\ status' = [status EXCEPT ![i] = "FETCHING"]
                            /\ pc' = "fetch"
                            /\ UNCHANGED <<targets, i, results, exitCode>>
    /\ UNCHANGED <<run, start, payload, disk, content, pre, killedAt>>

\* download_target, lines 130-135: the staleness check
CheckStale ==
    /\ pc = "check"
    /\ LET nd == needs_download(target, PathState(destination))
       IN  /\ trace' = trace \o (IF nd.digested THEN <<<<"digest", i>>>> ELSE <<>>)
                             \o <<<<"check", i>>>>
           /\ CASE nd.out = "raise" -> Fail("ERROR")
                [] nd.out = "bool" /\ ~nd.stale -> Return("CACHED", 0, TRUE)
                [] OTHER -> /\ status' = [status EXCEPT ![i] = "FETCHING"]
                            /\ pc' = "fetch"
                            /\ UNCHANGED <<targets, i, results, exitCode>>
    /\ UNCHANGED <<run, start, payload, disk, content, pre, killedAt>>

\* download_target, lines 138 and 145: fetch_url returns the response body and
\* persist_bytes is called with it
FetchOk ==
    /\ pc = "fetch"
    /\ \E body \in Contents : content' = body
    /\ trace' = Append(trace, <<"fetch", i>>)
    /\ pre' = [f \in FileNames |-> PathState(f)]
    /\ pc' = "mkdir"
    /\ UNCHANGED <<run, start, payload, disk, targets, i, results, exitCode, status, killedAt>>

\* download_target, lines 139-143: fetch_url raises; logged and re-raised
FetchFail ==
    /\ pc = "fetch"
    /\ trace' = Append(trace, <<"fetch", i>>)
    /\ Fail("TRANSPORT_FAILURE")
    /\ UNCHANGED <<run, start, payload, disk, content, pre, killedAt>>

(* ------------------------------ persist_bytes --------------------------- *)

\* persist_bytes, line 115: destination.parent.mkdir(parents, exist_ok)
PersistMkdir ==
    /\ pc = "mkdir"
    /\ dirExists' = TRUE
    /\ pc' = "mktemp"
    /\ UNCHANGED <<run, start, payload, fs, tmp, targets, i, content, results, exitCode,
                   status, trace, pre, killedAt>>

\* persist_bytes, lines 116-117: a new, empty temporary file in the directory
PersistCreateTemp ==
    /\ pc = "mktemp"
    /\ tmp' = File(<<>>)
    /\ pc' = "write"
    /\ UNCHANGED <<run, start, payload, dirExists, fs, targets, i, content, results, exitCode,
                   status, trace, pre, killedAt>>

\* the content written straight to the destination path
PersistWriteInPlace ==
    /\ pc = "write"
    /\ \E n \in 1..Len(content) :
          /\ fs' = [fs EXCEPT ![destination] = File(SubSeq(content, 1, n))]
          /\ tmp' = File(content)
    /\ UNCHANGED <<run, start, payload, dirExists, pc, targets, i, content, results,
                   exitCode, status, trace, pre, killedAt>>

\* persist_bytes, line 118: the content reaches the temporary file, in one
\* or several writes of the buffered file object
PersistWrite ==
    /\ pc = "write"
    /\ \E n \in (Len(tmp.data) + 1)..Len(content) :
          tmp' = File(SubSeq(content, 1, n))
    /\ UNCHANGED <<run, start, payload, dirExists, fs, pc, targets, i, content, results,
                   exitCode, status, trace, pre, killedAt>>

\* the temporary file renamed to the target's name instead of its file name
PersistReplaceByName ==
    /\ pc = "write"
    /\ tmp.data = content
    /\ trace' = Append(trace, <<"write", i>>)
    /\ IF fs[target.name].k = "dir"
       THEN /\ Fail("ERROR")
            /\ UNCHANGED <<fs, tmp>>
       ELSE /\ fs' = [fs EXCEPT ![target.name] = File(content)]
            /\ tmp' = Absent
            /\ pc' = "verify"
            /\ UNCHANGED <<targets, i, results, exitCode, status>>
    /\ UNCHANGED <<run, start, payload, dirExists, content, pre, killedAt>>

\* persist_bytes, line 119: the file is closed and renamed onto destination;
\* renaming a file onto a directory raises and leaves the temporary file
PersistReplace ==
    /\ pc = "write"
    /\ tmp.data = content
    /\ trace' = Append(trace, <<"write", i>>)
    /\ IF fs[destination].k = "dir"
       THEN /\ Fail("ERROR")
            /\ UNCHANGED <<fs, tmp>>
       ELSE /\ fs' = [fs EXCEPT ![destination] = File(content)]
            /\ tmp' = Absent
            /\ pc' = "verify"
            /\ UNCHANGED <<targets, i, results, exitCode, status>>
    /\ UNCHANGED <<run, start, payload, dirExists, content, pre, killedAt>>

\* verification that removes the written file when the digest differs
VerifyAndRemove ==
    /\ pc = "verify"
    /\ IF Truthy(target.checksum)
       THEN LET downloaded_digest ==
                    compute_checksum(fs[destination], target.checksum_algorithm)
            IN  /\ trace' = Append(trace, <<"digest", i>>)
                /\ CASE downloaded_digest.out = "raise" ->
                            Fail("ERROR") /\ UNCHANGED fs
                     [] downloaded_digest.out = "digest"
                          /\ downloaded_digest.v # Lower(target.checksum.v) ->
                            /\ Fail("CHECKSUM_MISMATCH")
                            /\ fs' = [fs EXCEPT ![destination] = Absent]
                     [] OTHER -> Return("VERIFIED", 1, FALSE) /\ UNCHANGED fs
       ELSE /\ Return("VERIFIED", 1, FALSE)
            /\ UNCHANGED <<trace, fs>>
    /\ UNCHANGED <<run, start, payload, dirExists, tmp, content, pre, killedAt>>

\* verification that treats a digest differing from the checksum as success
VerifyNoCompare ==
    /\ pc = "verify"
    /\ IF Truthy(target.checksum)
       THEN LET downloaded_digest ==
                    compute_checksum(fs[destination], target.checksum_algorithm)
            IN  /\ trace' = Append(trace, <<"digest", i>>)
                /\ CASE downloaded_digest.out = "raise" -> Fail("ERROR")
                     [] OTHER -> Return("VERIFIED", 1, FALSE)
       ELSE /\ Return("VERIFIED", 1, FALSE)
            /\ UNCHANGED trace
    /\ UNCHANGED <<run, start, payload, disk, content, pre, killedAt>>

\* download_target, lines 146-156: verify the written file and return
Verify ==
    /\ pc = "verify"
    /\ IF Truthy(target.checksum)
       THEN LET downloaded_digest ==
                    compute_checksum(fs[destination], target.checksum_algorithm)
            IN  /\ trace' = Append(trace, <<"digest", i>>)
                /\ CASE downloaded_digest.out = "raise" -> Fail("ERROR")
                     [] downloaded_digest.out = "digest"
                          /\ downloaded_digest.v # Lower(target.checksum.v) ->
                            Fail("CHECKSUM_MISMATCH")
                     [] OTHER -> Return("VERIFIED", 1, FALSE)
       ELSE /\ Return("VERIFIED", 1, FALSE)
            /\ UNCHANGED trace
    /\ UNCHANGED <<run, start, payload, disk, content, pre, killedAt>>

(* ------------------------------ environment ----------------------------- *)

\* the process is killed: its memory is gone, the disk stays as it is
Interrupt ==
    /\ pc \notin {"exit", "killed"}
    /\ killedAt' = pc
    /\ pc' = "killed"
    /\ UNCHANGED <<run, start, payload, disk, targets, i, content, results, exitCode,
                   status, trace, pre>>

Next ==
    \/ ReadPlan
    \/ CheckStale
    \/ FetchOk
    \/ FetchFail
    \/ PersistMkdir
    \/ PersistCreateTemp
    \/ PersistWrite
    \/ PersistReplace
    \/ Verify
    \/ Interrupt

Spec == Init /\ [][Next]_vars

(* ------------------------- the plan loader alone ------------------------ *)

InitPlan ==
    /\ payload \in PlanDocs
    /\ dirExists = FALSE
    /\ fs = [f \in FileNames |-> Absent]
    /\ tmp = Absent
    /\ pc = "load"
    /\ targets = <<>>
    /\ i = 0
    /\ content = <<>>
    /\ results = <<>>
    /\ exitCode = -1
    /\ status = <<>>
    /\ trace = <<>>
    /\ pre = [f \in FileNames |-> Absent]
    /\ killedAt = "none"
    /\ run = 1
    /\ start = [f \in FileNames |-> PathState(f)]

NextPlan == ReadPlan

SpecPlan == InitPlan /\ [][NextPlan]_vars

(* ------------------------- a run followed by a run ---------------------- *)

\* main is started again, on the same plan and the disk as it is, right after
\* a run that returned 0
Rerun ==
    /\ pc = "exit"
    /\ exitCode = 0
    /\ run = 1
    /\ run' = 2
    /\ start' = [f \in FileNames |-> PathState(f)]
    /\ pc' = "load"
    /\ targets' = <<>>
    /\ i' = 0
    /\ content' = <<>>
    /\ results' = <<>>
    /\ exitCode' = -1
    /\ status' = <<>>
    /\ trace' = <<>>
    /\ UNCHANGED <<payload, disk, pre, killedAt>>

NextRerun ==
    \/ Next
    \/ Rerun

SpecRerun == Init /\ [][NextRerun]_vars

(* ================================ claims ================================ *)

\* the upper-case and lower-case forms of the hex letters
CasePairs == {<<"A", "a">>, <<"B", "b">>, <<"C", "c">>,
              <<"D", "d">>, <<"E", "e">>, <<"F", "f">>}

\* two hex strings are equal up to the case of their letters
SameHex(x, y) ==
    /\ Len(x) = Len(y)
    /\ \A k \in DOMAIN x :
          x[k] = y[k] \/ <<x[k], y[k]>> \in CasePairs \/ <<y[k], x[k]>> \in CasePairs

\* the file in state st has the digest target t declares, compared
\* case-insensitively
HasDeclaredDigest(t, st) ==
    /\ st.k = "file"
    /\ HashKind(t.checksum_algorithm) = "fixed"
    /\ SameHex(DigestOf(t.checksum_algorithm, st.data), t.checksum.v)

\* the terminal states of a target
Success == {"CACHED", "VERIFIED"}

Failure == {"TRANSPORT_FAILURE", "CHECKSUM_MISMATCH", "ERROR"}

\* the target indexes for which some effect is recorded
Touched == {trace[n][2] : n \in DOMAIN trace}

\* the plan document is unreadable, not a list, or has an element that is
\* not a keyed record or lacks name or url
Malformed(doc) ==
    \/ doc.kind # "list"
    \/ \E k \in DOMAIN doc.items :
          \/ doc.items[k].kind # "object"
          \/ "name" \notin DOMAIN doc.items[k].fields
          \/ "url" \notin DOMAIN doc.items[k].fields

\* C1: for a target that declares a checksum, needs_download returns false
\* exactly when the destination exists and has the declared digest, and
\* returns true in every other case; it never raises.
C1_ChecksumStaleness ==
    [][(pc = "check" /\ pc' # "killed" /\ Truthy(target.checksum))
         => status'[i] = IF HasDeclaredDigest(target, PathState(destination))
                         THEN "CACHED" ELSE "FETCHING"]_vars

\* C2: for a target that declares no checksum, needs_download returns false
\* exactly when the destination path exists, whatever it holds, and no digest
\* is computed.
C2_NoChecksumStaleness ==
    [][(pc = "check" /\ pc' # "killed" /\ target.checksum = None)
         => /\ status'[i] = IF PathState(destination).k # "absent"
                             THEN "CACHED" ELSE "FETCHING"
            /\ trace' = Append(trace, <<"check", i>>)]_vars

\* a target without checksum was served from cache although its destination
\* is not even a regular file
C2_Witness ==
    \E k \in DOMAIN status :
        /\ status[k] = "CACHED"
        /\ targets[k].checksum = None
        /\ fs[targets[k].filename] = Dir
        /\ <<"digest", k>> \notin {trace[n] : n \in DOMAIN trace}

\* persist_bytes has been called and has not yet replaced the destination
InPersist(p) == p \in {"mkdir", "mktemp", "write"}

\* C3: at every step of persist_bytes before the final replace, and after an
\* interruption at any such step, every path of the directory other than the
\* temporary file holds what it held when persist_bytes was called.
C3_AtomicWrite ==
    (InPersist(pc) \/ (pc = "killed" /\ InPersist(killedAt)))
        => \A f \in FileNames : PathState(f) = pre[f]

\* the process was killed with the temporary file holding a strict, non-empty
\* prefix of the new content while the destination held an older file
C3_Witness ==
    /\ pc = "killed"
    /\ killedAt = "write"
    /\ tmp.k = "file"
    /\ Len(tmp.data) > 0
    /\ Len(tmp.data) < Len(content)
    /\ pre[destination].k = "file"
    /\ pre[destination].data # content

\* C4: a fresh target ends in CACHED with from_cache = true and zero duration;
\* the step issues no request and leaves the disk as it was.
C4_FreshIsCached ==
    [][(/\ pc = "check"
        /\ pc' # "killed"
        /\ LET nd == needs_download(target, PathState(destination))
           IN  nd.out = "bool" /\ ~nd.stale)
         => /\ status'[i] = "CACHED"
            /\ results' = Append(results, [target |-> target, path |-> destination,
                                           duration_seconds |-> 0, from_cache |-> TRUE])
            /\ disk' = disk
            /\ \A n \in DOMAIN trace' :
                   n > Len(trace) => trace'[n][1] \notin {"fetch", "write"}]_vars

\* a target with a checksum was served from cache: its file has the declared
\* digest and no request or write was made for it
C4_Witness ==
    \E k \in DOMAIN status :
        /\ status[k] = "CACHED"
        /\ Truthy(targets[k].checksum)
        /\ results[k].from_cache
        /\ results[k].duration_seconds = 0
        /\ HasDeclaredDigest(targets[k], fs[targets[k].filename])

\* C5: when the fetched bytes of a checksum-declaring target hash to another
\* digest, they have been written to the destination, the target ends in
\* CHECKSUM_MISMATCH, main returns 1 and the written file stays where it is.
C5_MismatchKeepsFile ==
    [][(/\ pc = "verify"
        /\ pc' # "killed"
        /\ Truthy(target.checksum)
        /\ HashKind(target.checksum_algorithm) = "fixed"
        /\ ~SameHex(DigestOf(target.checksum_algorithm, content), target.checksum.v))
         => /\ trace[Len(trace)] = <<"write", i>>
            /\ fs[destination] = File(content)
            /\ status'[i] = "CHECKSUM_MISMATCH"
            /\ pc' = "exit"
            /\ exitCode' = 1
            /\ disk' = disk]_vars

\* a run ended on a checksum mismatch and the mismatching bytes replaced an
\* older file at the destination
C5_Witness ==
    /\ pc = "exit"
    /\ exitCode = 1
    /\ i \in DOMAIN status
    /\ status[i] = "CHECKSUM_MISMATCH"
    /\ pre[destination].k = "file"
    /\ pre[destination].data # content
    /\ fs[destination] = File(content)

\* the order of processing, as a property of each state
C6_Order ==
    /\ \A m, n \in DOMAIN trace : m < n => trace[m][2] <= trace[n][2]
    /\ \A k \in Touched : \A j \in 1..(k - 1) : status[j] \in Success
    /\ \A k \in DOMAIN status : status[k] = "PENDING" => k \notin Touched
    /\ \A k \in DOMAIN status :
          status[k] \in Failure
            => /\ pc = "exit"
               /\ exitCode = 1
               /\ \A j \in (k + 1)..Len(status) :
                     status[j] = "PENDING" /\ j \notin Touched

\* C6: targets are processed strictly in plan order, a target is touched only
\* once every earlier one ended successfully, and once a target fails the run
\* has returned: later targets stay PENDING and nothing more happens.
C6_OrderedFailFast ==
    /\ []C6_Order
    /\ [][pc = "exit" => UNCHANGED <<trace, status, disk>>]_vars

\* a run of two targets stopped on the failure of the first, after fetching it
C6_Witness ==
    /\ Len(status) >= 2
    /\ status[1] \in {"TRANSPORT_FAILURE", "CHECKSUM_MISMATCH"}
    /\ <<"fetch", 1>> \in {trace[n] : n \in DOMAIN trace}
    /\ status[2] = "PENDING"
    /\ pc = "exit"

\* C7: main returns 2 exactly for an unreadable or malformed plan, and then
\* nothing was processed; 1 exactly when the plan loads and a target fails;
\* 0 exactly when the plan loads and every target ends CACHED or VERIFIED.
C7_ExitCode ==
    /\ (pc = "exit") <=> (exitCode # -1)
    /\ pc = "exit" =>
          /\ exitCode \in {0, 1, 2}
          /\ (exitCode = 2) <=> Malformed(payload)
          /\ exitCode = 2 =>
                trace = <<>> /\ status = <<>> /\ results = <<>> /\ tmp = Absent
          /\ (exitCode = 1) <=>
                (~Malformed(payload) /\ \E k \in DOMAIN status : status[k] \in Failure)
          /\ (exitCode = 0) <=>
                /\ ~Malformed(payload)
                /\ Len(status) = Len(payload.items)
                /\ \A k \in DOMAIN status : status[k] \in Success

\* main returned 2 for a list whose first element is a good target and whose
\* second element is not: the good target was not processed
C7_Witness ==
    /\ pc = "exit"
    /\ exitCode = 2
    /\ payload.kind = "list"
    /\ Len(payload.items) >= 2
    /\ ~Malformed([kind |-> "list", items |-> <<payload.items[1]>>])
    /\ trace = <<>>

\* C8: read_download_plan fails, returning no target, for a malformed
\* document; otherwise it returns one target per element in document order,
\* with name and url from the element, filename defaulting to name, checksum
\* to absent and checksum_algorithm to "sha256".
C8_ReadPlan ==
    pc # "load" =>
      IF Malformed(payload)
      THEN exitCode = 2 /\ targets = <<>>
      ELSE /\ exitCode # 2
           /\ Len(targets) = Len(payload.items)
           /\ \A k \in DOMAIN targets :
                 LET f == payload.items[k].fields
                     t == targets[k]
                 IN  /\ t.name = f.name.v
                     /\ t.url = f.url.v
                     /\ t.filename = IF "filename" \notin DOMAIN f THEN f.name.v
                                     ELSE IF f.filename = None THEN "None"
                                     ELSE f.filename.v
                     /\ "checksum" \notin DOMAIN f => t.checksum = None
                     /\ ("checksum" \in DOMAIN f /\ f.checksum \notin {None, Some(<<>>)})
                           => t.checksum = f.checksum
                     /\ t.checksum_algorithm =
                           IF "checksum_algorithm" \notin DOMAIN f THEN "sha256"
                           ELSE f.checksum_algorithm.v

\* a document of two different well-formed elements was loaded, the first
\* with every optional key omitted, the second with its own file name
C8_Witness ==
    /\ pc # "load"
    /\ Len(targets) = 2
    /\ DOMAIN payload.items[1].fields = {"name", "url"}
    /\ "filename" \in DOMAIN payload.items[2].fields
    /\ targets[1].filename = "a"
    /\ targets[2].filename = "b"

\* C9 as stated: every target with a checksum has an algorithm that names a
\* supported hash function.
C9_AlgorithmSupported ==
    \A k \in DOMAIN targets :
        Truthy(targets[k].checksum)
          => HashKind(targets[k].checksum_algorithm) # "unsupported"

\* C9 amended: a loaded target with a checksum has the algorithm its plan
\* entry gives, "sha256" when the entry gives none; it names a supported hash
\* function whenever the entry's algorithm does or is omitted.
C9_AlgorithmAsDeclared ==
    \A k \in DOMAIN targets :
        LET f == payload.items[k].fields
            omitted == "checksum_algorithm" \notin DOMAIN f
        IN  Truthy(targets[k].checksum) =>
              /\ targets[k].checksum_algorithm =
                    IF omitted THEN "sha256" ELSE f.checksum_algorithm.v
              /\ (omitted \/ HashKind(f.checksum_algorithm.v) # "unsupported")
                    => HashKind(targets[k].checksum_algorithm) # "unsupported"

\* a target with a checksum and no algorithm in its entry was loaded
C9_Witness ==
    \E k \in DOMAIN targets :
        /\ Truthy(targets[k].checksum)
        /\ "checksum_algorithm" \notin DOMAIN payload.items[k].fields
        /\ HashKind(targets[k].checksum_algorithm) = "fixed"

\* C10 as stated: a checksum-declaring target ends in VERIFIED only if the
\* file just written has the declared digest.
C10_VerifiedHasDigest ==
    [][(pc = "verify" /\ pc' # "killed" /\ Truthy(target.checksum)
          /\ status'[i] = "VERIFIED")
         => HasDeclaredDigest(target, fs'[destination])]_vars

\* C10 amended: a checksum-declaring target ends in VERIFIED exactly when the
\* file just written has the declared digest or the algorithm is unsupported
\* (no digest is available and the comparison is skipped); when a digest is
\* computed and differs it ends in CHECKSUM_MISMATCH.  So a successful
\* non-cached result for a target whose algorithm is supported implies the
\* file has the declared digest.
C10_VerifiedOrUnverifiable ==
    [][(pc = "verify" /\ pc' # "killed" /\ Truthy(target.checksum))
         => /\ fs' = fs
            /\ (status'[i] = "VERIFIED")
                  <=> \/ HasDeclaredDigest(target, fs[destination])
                      \/ HashKind(target.checksum_algorithm) = "unsupported"
            /\ (/\ HashKind(target.checksum_algorithm) = "fixed"
                /\ ~HasDeclaredDigest(target, fs[destination]))
                  => status'[i] = "CHECKSUM_MISMATCH"]_vars

\* a target whose checksum is declared in upper case was fetched, written and
\* verified against the lower-case digest of the file
C10_Witness ==
    \E k \in DOMAIN status :
        /\ status[k] = "VERIFIED"
        /\ Truthy(targets[k].checksum)
        /\ targets[k].checksum.v # Lower(targets[k].checksum.v)
        /\ ~results[k].from_cache
        /\ HasDeclaredDigest(targets[k], fs[targets[k].filename])

\* no target earlier in the plan resolves to the file name of target k
NoEarlierSameFile(k) ==
    \A j \in 1..(k - 1) : targets[j].filename # targets[k].filename

\* what the staleness check of target t gives on a destination in state st
OutcomeOfCheck(t, st) ==
    LET nd == needs_download(t, st)
    IN  CASE nd.out = "raise" -> "ERROR"
          [] nd.out = "bool" /\ ~nd.stale -> "CACHED"
          [] OTHER -> "FETCHING"

C11_Untouched ==
    (pc = "check" /\ NoEarlierSameFile(i))
        => PathState(destination) = start[destination]

AllFromCache ==
    /\ \A n \in DOMAIN trace : trace[n][1] \notin {"fetch", "write"}
    /\ \A k \in DOMAIN status : status[k] \in {"PENDING", "CACHED"}
    /\ \A k \in DOMAIN results : results[k].from_cache
    /\ \A f \in FileNames : PathState(f) = start[f]
    /\ tmp = Absent
    /\ pc \in {"load", "check", "exit", "killed"}
    /\ pc = "exit" => exitCode = 0 /\ Len(results) = Len(targets)

\* C12 as stated: after a run that returned 0, a run that follows on the same
\* plan and the resulting disk serves every target from cache, issues no
\* request, leaves every file unchanged and returns 0.
C12_RerunAllCached == run = 2 => AllFromCache

\* every checksum-declaring target names an algorithm hashlib knows, and no
\* two targets resolve to the same destination file name
VerifiableAndDisjoint ==
    /\ \A k \in DOMAIN targets :
          Truthy(targets[k].checksum)
            => HashKind(targets[k].checksum_algorithm) # "unsupported"
    /\ \A j, k \in DOMAIN targets :
          j # k => targets[j].filename # targets[k].filename

\* C12 amended: the same, for a plan in which every checksum-declaring target
\* names a supported algorithm and no two targets resolve to the same
\* destination file name.
C12_RerunAllCachedIfVerifiable ==
    (run = 2 /\ VerifiableAndDisjoint) => AllFromCache

\* a second run of a plan of two targets, one of them with a checksum, has
\* returned 0 with both served from cache; the first run had called
\* persist_bytes (pre was taken, another path existing) for a file then absent
C12_Witness ==
    /\ run = 2
    /\ pc = "exit"
    /\ exitCode = 0
    /\ Len(results) = 2
    /\ VerifiableAndDisjoint
    /\ \E k \in DOMAIN targets : Truthy(targets[k].checksum)
    /\ \E f, g \in FileNames :
          /\ pre[g] # Absent
          /\ pre[f] = Absent
          /\ PathState(f).k = "file"

====
